---------------------------- MODULE Spec2Model ----------------------------
(***************************************************************************)
(* Model of the export path of the articulation-to-USD compiler:           *)
(*   routes.export_usd -> USDBuilder.build_from_parts                      *)
(*                     -> PhysicsInjector.inject_physics                   *)
(*                     -> USDBuilder.save_stage                            *)
(*                                                                         *)
(* A string is a sequence of one-character strings, so that the two name   *)
(* sanitizers are modelled by what they do to the characters.  A prim path *)
(* is the sequence of its prim names ("/robot/arm/mesh" is                 *)
(* <<robot, arm, mesh>>).  An Optional[float] is the empty set (None) or a *)
(* singleton.  The stage is a function from the paths of its prims to      *)
(* their type, applied API schemas and authored attributes.                *)
(***************************************************************************)
EXTENDS Integers, Sequences, FiniteSets, TLC

(***************************************************************************)
(* Characters.  Only ASCII is modelled: str.isalnum / str.isdigit are      *)
(* taken on letters, digits, "_" and two punctuation characters; EAcute    *)
(* is the one character U+00E9, a letter outside ASCII for which           *)
(* str.isalnum is true as well.                                            *)
(***************************************************************************)
DigitChars == <<"0", "1", "2", "3", "4", "5", "6", "7", "8", "9">>

Digits == {DigitChars[n] : n \in 1..10}

Letters == {"a", "b", "c", "d", "e", "g", "h", "i", "j", "m", "n", "o", "p",
            "r", "s", "t", "u", "y", "J", "P", "S"}

Punct == {"-", " "}

EAcute == "U+00E9"

IsAlnum(c) == c \in Letters \cup Digits \cup {EAcute}

\* str.replace('__', '_'): one left-to-right pass over non-overlapping matches
RECURSIVE ReplaceDouble(_)
ReplaceDouble(s) ==
    IF Len(s) < 2 THEN s
    ELSE IF s[1] = "_" /\ s[2] = "_"
         THEN <<"_">> \o ReplaceDouble(SubSeq(s, 3, Len(s)))
         ELSE <<s[1]>> \o ReplaceDouble(Tail(s))

\* '__' in s
HasDouble(s) == \E k \in 1..(Len(s) - 1) : s[k] = "_" /\ s[k + 1] = "_"

\* while '__' in sanitized: sanitized = sanitized.replace('__', '_')
RECURSIVE CollapseUnderscores(_)
CollapseUnderscores(s) ==
    IF HasDouble(s) THEN CollapseUnderscores(ReplaceDouble(s)) ELSE s

Unnamed == <<"_", "u", "n", "n", "a", "m", "e", "d">>

\* USDBuilder._sanitize_prim_name
_sanitize_prim_name(name) ==
    LET replaced == [k \in 1..Len(name) |->
                        IF IsAlnum(name[k]) \/ name[k] = "_" THEN name[k] ELSE "_"]
        prefixed == IF replaced # <<>> /\ replaced[1] \in Digits
                    THEN <<"_">> \o replaced ELSE replaced
        nonEmpty == IF prefixed = <<>> THEN Unnamed ELSE prefixed
    IN  CollapseUnderscores(nonEmpty)

\* PhysicsInjector._sanitize_name
_sanitize_name(name) ==
    LET sanitized1 == [k \in 1..Len(name) |->
                        IF IsAlnum(name[k]) \/ name[k] = "_" THEN name[k] ELSE "_"]
        sanitized2 == IF sanitized1 # <<>> /\ sanitized1[1] \in Digits
                      THEN <<"_">> \o sanitized1 ELSE sanitized1
        sanitized3 == IF sanitized2 = <<>> THEN Unnamed ELSE sanitized2
    IN  CollapseUnderscores(sanitized3)

(***************************************************************************)
(* GLBParser._generate_unique_id.                                          *)
(***************************************************************************)
\* str.lower(), character by character
Lower(c) ==
    IF c = "J" THEN "j" ELSE IF c = "P" THEN "p" ELSE IF c = "S" THEN "s" ELSE c

\* s.split('_'): the pieces between the underscores, the empty ones too
RECURSIVE Split(_)
Split(s) ==
    IF \A k \in 1..Len(s) : s[k] # "_" THEN <<s>>
    ELSE LET first == CHOOSE k \in 1..Len(s) :
                          s[k] = "_" /\ \A j \in 1..(k - 1) : s[j] # "_"
         IN  <<SubSeq(s, 1, first - 1)>> \o Split(SubSeq(s, first + 1, Len(s)))

\* '_'.join(pieces)
RECURSIVE Join(_)
Join(pieces) ==
    IF pieces = <<>> THEN <<>>
    ELSE IF Len(pieces) = 1 THEN pieces[1]
         ELSE pieces[1] \o <<"_">> \o Join(Tail(pieces))

\* filter(None, pieces) keeps the pieces that are not empty
IsTruthy(piece) == piece # <<>>

PartWord == <<"p", "a", "r", "t">>

\* str(n) for a natural number
RECURSIVE Str(_)
Str(n) ==
    IF n < 10 THEN <<DigitChars[n + 1]>>
    ELSE Str(n \div 10) \o <<DigitChars[(n % 10) + 1]>>

\* the sanitized candidate: lower, non-alphanumerics to "_", empty pieces
\* removed, "part" when nothing is left
Sanitized(base_name) ==
    LET lowered == [k \in 1..Len(base_name) |-> Lower(base_name[k])]
        replaced == [k \in 1..Len(lowered) |->
                        IF IsAlnum(lowered[k]) THEN lowered[k] ELSE "_"]
        joined == Join(SelectSeq(Split(replaced), IsTruthy))
    IN  IF joined = <<>> THEN PartWord ELSE joined

\* f"{sanitized}_{counter}"
Suffixed(sanitized, counter) == sanitized \o <<"_">> \o Str(counter)

\* the while loop, entered with unique_name and counter
RECURSIVE EnsureUnique(_, _, _, _)
EnsureUnique(unique_name, sanitized, counter, used_names) ==
    IF unique_name \in used_names
    THEN EnsureUnique(Suffixed(sanitized, counter), sanitized, counter + 1, used_names)
    ELSE unique_name

\* a version that tries the suffix _1 once instead of looping
_generate_unique_id_once(base_name, used_names) ==
    IF Sanitized(base_name) \in used_names
    THEN Suffixed(Sanitized(base_name), 1)
    ELSE Sanitized(base_name)

\* a version whose counter starts at 2
_generate_unique_id_from_two(base_name, used_names) ==
    EnsureUnique(Sanitized(base_name), Sanitized(base_name), 2, used_names)

_generate_unique_id(base_name, used_names) ==
    EnsureUnique(Sanitized(base_name), Sanitized(base_name), 1, used_names)

(***************************************************************************)
(* Python dicts keep insertion order: a dict is a sequence of [k, v]       *)
(* records with distinct keys.                                             *)
(***************************************************************************)
DictKeys(d) == {d[n].k : n \in 1..Len(d)}

DictGet(d, key) == d[CHOOSE n \in 1..Len(d) : d[n].k = key].v

\* d[key] = val
DictSet(d, key, val) ==
    IF key \in DictKeys(d)
    THEN [n \in 1..Len(d) |-> IF d[n].k = key THEN [k |-> key, v |-> val] ELSE d[n]]
    ELSE Append(d, [k |-> key, v |-> val])

(***************************************************************************)
(* Optional values and the names the code itself spells out.               *)
(***************************************************************************)
None == {}

Some(v) == {v}

TheValue(o) == CHOOSE v \in o : TRUE

MeshName == <<"m", "e", "s", "h">>

JointsName == <<"J", "o", "i", "n", "t", "s">>

PhysicsSceneName == <<"P", "h", "y", "s", "i", "c", "s", "S", "c", "e", "n", "e">>

\* PhysicsInjector.__init__(default_density=1000.0)
DefaultDensity == 1000

\* CreateGravityMagnitudeAttr(9.81), in hundredths
GravityMagnitudeCenti == 981

(***************************************************************************)
(* The stage.  A prim has a type name, the set of applied API schemas and  *)
(* its authored attributes; an attribute nobody authored is None.          *)
(***************************************************************************)
BlankDrive ==
    [type |-> None, stiffness |-> None, damping |-> None, maxForce |-> None,
     targetPosition |-> None, targetVelocity |-> None]

BlankPrim ==
    [type |-> "", apis |-> {},
     gravityDirection |-> None, gravityMagnitude |-> None,
     points |-> None,
     kinematicEnabled |-> None, mass |-> None, density |-> None,
     centerOfMass |-> None, approximation |-> None,
     body0 |-> <<>>, body1 |-> <<>>, axis |-> None,
     lowerLimit |-> None, upperLimit |-> None, localFrames |-> None,
     drive |-> [angular |-> BlankDrive, linear |-> BlankDrive]]

\* stage.GetPrimAtPath(path).IsValid()
IsValid(st, path) == path \in DOMAIN st

\* <Schema>.Define(stage, path): creates the prim, or retypes the prim that is
\* already at that path and keeps what was authored on it
Define(st, path, typeName) ==
    IF IsValid(st, path)
    THEN [st EXCEPT ![path].type = typeName]
    ELSE (path :> [BlankPrim EXCEPT !.type = typeName]) @@ st

\* USDBuilder.create_stage: the root Xform, set as the default prim
create_stage(model_name) ==
    Define(<<>>, <<_sanitize_prim_name(model_name)>>, "Xform")

\* stage.GetDefaultPrim().GetPath(): the stage's one root prim
DefaultPrimPath(st) == CHOOSE p \in DOMAIN st : Len(p) = 1

\* USDBuilder.add_physics_scene
add_physics_scene(st) ==
    LET scene_path == Append(DefaultPrimPath(st), PhysicsSceneName)
        defined == Define(st, scene_path, "PhysicsScene")
    IN  [defined EXCEPT ![scene_path].gravityDirection = Some(<<0, 0, -1>>),
                        ![scene_path].gravityMagnitude = Some(GravityMagnitudeCenti)]

\* USDBuilder.add_mesh_prim: the Xform of the part and its Mesh child; the
\* result is the stage, the path of the Xform is XformPath
XformPath(parent_path, name) == Append(parent_path, _sanitize_prim_name(name))

add_mesh_prim(st, parent_path, name, data) ==
    LET xform_path == XformPath(parent_path, name)
        mesh_path == Append(xform_path, MeshName)
        withXform == Define(st, xform_path, "Xform")
        withMesh == Define(withXform, mesh_path, "Mesh")
    IN  [withMesh EXCEPT ![mesh_path].points = Some(data)]

\* part_info_map = {p['id']: p for p in part_info}: a later part of the same
\* id replaces the earlier one
RECURSIVE part_info_map(_)
part_info_map(part_info) ==
    IF part_info = <<>> THEN <<>>
    ELSE LET last == part_info[Len(part_info)]
         IN  DictSet(part_info_map(SubSeq(part_info, 1, Len(part_info) - 1)),
                     last.id, last)

\* info = part_info_map.get(part_id, {'type': 'link'}); info.get('name', part_id)
part_name(part_info, part_id) ==
    LET map == part_info_map(part_info)
    IN  IF part_id \in DictKeys(map) THEN DictGet(map, part_id).name ELSE part_id

(***************************************************************************)
(* PhysicsInjector: the schema writers.  Each takes the stage and returns  *)
(* the stage after its writes; its "Prim not found" ValueError is the      *)
(* caller's IsValid test in the actions below.                             *)
(***************************************************************************)
\* PhysicsInjector.apply_articulation_root
apply_articulation_root(st, prim_path) ==
    [st EXCEPT ![prim_path].apis = @ \cup {"ArticulationRootAPI"}]

\* float(density or self.default_density): None and 0.0 are both falsy
DensityOrDefault(density) ==
    IF density = None \/ density = Some(0) THEN DefaultDensity ELSE TheValue(density)

\* PhysicsInjector.apply_rigid_body
apply_rigid_body(st, prim_path, is_kinematic, mass, density, center_of_mass) ==
    LET prim == st[prim_path]
        rigid == [prim EXCEPT !.apis = @ \cup {"RigidBodyAPI"},
                              !.kinematicEnabled =
                                  IF is_kinematic THEN Some(TRUE) ELSE @]
        massApi == [rigid EXCEPT !.apis = @ \cup {"MassAPI"}]
        massed == IF mass # None
                  THEN [massApi EXCEPT !.mass = mass]
                  ELSE [massApi EXCEPT !.density = Some(DensityOrDefault(density))]
        centered == IF center_of_mass # None
                    THEN [massed EXCEPT !.centerOfMass = center_of_mass]
                    ELSE massed
    IN  [st EXCEPT ![prim_path] = centered]

\* a mapping that mirrors the collision type one to one
ApproximationMirrored(collision_type) == collision_type

\* the approximation token apply_collision writes for a collision_type
Approximation(collision_type) ==
    IF collision_type = "convexHull" THEN "convexHull"
    ELSE IF collision_type = "convexDecomposition" THEN "convexDecomposition"
    ELSE "none"

\* PhysicsInjector.apply_collision
apply_collision(st, prim_path, collision_type) ==
    LET prim == st[prim_path]
        collision == [prim EXCEPT !.apis = @ \cup {"CollisionAPI"}]
        meshed == IF prim.type = "Mesh"
                  THEN [collision EXCEPT
                           !.apis = @ \cup {"MeshCollisionAPI"},
                           !.approximation = Some(Approximation(collision_type))]
                  ELSE collision
    IN  [st EXCEPT ![prim_path] = meshed]

Abs(x) == IF x < 0 THEN -x ELSE x

\* a dominance test with strict comparisons
_axis_to_token_strict(axis) ==
    LET x == Abs(axis[1])
        y == Abs(axis[2])
        z == Abs(axis[3])
    IN  IF x > y /\ x > z THEN "X"
        ELSE IF y > x /\ y > z THEN "Y"
        ELSE "Z"

\* PhysicsInjector._axis_to_token
_axis_to_token(axis) ==
    LET x == Abs(axis[1])
        y == Abs(axis[2])
        z == Abs(axis[3])
    IN  IF x >= y /\ x >= z THEN "X"
        ELSE IF y >= x /\ y >= z THEN "Y"
        ELSE "Z"

\* PhysicsInjector._apply_joint_drive
_apply_joint_drive(prim, drive_type, stiffness, damping, max_force, is_angular) ==
    LET drive_name == IF is_angular THEN "angular" ELSE "linear"
        d0 == prim.drive[drive_name]
        d1 == [d0 EXCEPT !.type = Some("force")]
        d2 == IF stiffness # None THEN [d1 EXCEPT !.stiffness = stiffness] ELSE d1
        d3 == IF damping # None THEN [d2 EXCEPT !.damping = damping] ELSE d2
        d4 == IF max_force # None THEN [d3 EXCEPT !.maxForce = max_force] ELSE d3
        d5 == IF drive_type = "position" THEN [d4 EXCEPT !.targetPosition = Some(0)]
              ELSE IF drive_type = "velocity"
                   THEN [d4 EXCEPT !.targetVelocity = Some(0)]
                   ELSE d4
    IN  [prim EXCEPT !.apis = @ \cup {"DriveAPI:" \o drive_name},
                     !.drive[drive_name] = d5]

\* root/Joints, made an Xform when no prim is there yet
JointsParentPath(st) == Append(DefaultPrimPath(st), JointsName)

WithJointsParent(st) ==
    IF IsValid(st, JointsParentPath(st)) THEN st
    ELSE Define(st, JointsParentPath(st), "Xform")

JointPath(st, joint_name) == Append(JointsParentPath(st), _sanitize_name(joint_name))

\* a joint written with the child as body0 and the parent as body1
SingleAxisJointSwapped(prim, parent_path, child_path, axis, lower_limit, upper_limit) ==
    LET bodies == [prim EXCEPT !.body0 = <<child_path>>, !.body1 = <<parent_path>>,
                               !.axis = Some(_axis_to_token(axis))]
        lower == IF lower_limit # None
                 THEN [bodies EXCEPT !.lowerLimit = lower_limit] ELSE bodies
        upper == IF upper_limit # None
                 THEN [lower EXCEPT !.upperLimit = upper_limit] ELSE lower
    IN  [upper EXCEPT !.localFrames = Some("identity")]

\* the writes create_revolute_joint and create_prismatic_joint share: bodies,
\* axis, limits, local frames
SingleAxisJoint(prim, parent_path, child_path, axis, lower_limit, upper_limit) ==
    LET bodies == [prim EXCEPT !.body0 = <<parent_path>>, !.body1 = <<child_path>>,
                               !.axis = Some(_axis_to_token(axis))]
        lower == IF lower_limit # None
                 THEN [bodies EXCEPT !.lowerLimit = lower_limit] ELSE bodies
        upper == IF upper_limit # None
                 THEN [lower EXCEPT !.upperLimit = upper_limit] ELSE lower
    IN  [upper EXCEPT !.localFrames = Some("identity")]

\* PhysicsInjector.create_revolute_joint
create_revolute_joint(st, joint, parent_path, child_path) ==
    LET parented == WithJointsParent(st)
        joint_path == JointPath(st, joint.name)
        defined == Define(parented, joint_path, "RevoluteJoint")
        written == SingleAxisJoint(defined[joint_path],
                                   parent_path, child_path, joint.axis,
                                   joint.lower_limit, joint.upper_limit)
        driven == IF joint.drive_type # "none" /\ joint.drive_stiffness # None
                  THEN _apply_joint_drive(written, joint.drive_type,
                                          joint.drive_stiffness, joint.drive_damping,
                                          joint.drive_max_force, TRUE)
                  ELSE written
    IN  [defined EXCEPT ![joint_path] = driven]

\* PhysicsInjector.create_prismatic_joint
create_prismatic_joint(st, joint, parent_path, child_path) ==
    LET parented == WithJointsParent(st)
        joint_path == JointPath(st, joint.name)
        defined == Define(parented, joint_path, "PrismaticJoint")
        written == SingleAxisJoint(defined[joint_path],
                                   parent_path, child_path, joint.axis,
                                   joint.lower_limit, joint.upper_limit)
        driven == IF joint.drive_type # "none" /\ joint.drive_stiffness # None
                  THEN _apply_joint_drive(written, joint.drive_type,
                                          joint.drive_stiffness, joint.drive_damping,
                                          joint.drive_max_force, FALSE)
                  ELSE written
    IN  [defined EXCEPT ![joint_path] = driven]

\* PhysicsInjector.create_fixed_joint
create_fixed_joint(st, joint, parent_path, child_path) ==
    LET parented == WithJointsParent(st)
        joint_path == JointPath(st, joint.name)
        defined == Define(parented, joint_path, "FixedJoint")
    IN  [defined EXCEPT ![joint_path].body0 = <<parent_path>>,
                        ![joint_path].body1 = <<child_path>>,
                        ![joint_path].localFrames = Some("identity")]

\* PhysicsInjector._find_base_part: the parts of type base, in list order
BaseIndexes(parts) == {n \in 1..Len(parts) : parts[n].type = "base"}

\* a scan that keeps the last base part instead of returning the first
_find_last_base_part(parts) ==
    IF BaseIndexes(parts) = {} THEN None
    ELSE Some(parts[CHOOSE n \in BaseIndexes(parts) :
                       \A m \in BaseIndexes(parts) : n >= m])

_find_base_part(parts) ==
    IF BaseIndexes(parts) = {} THEN None
    ELSE Some(parts[CHOOSE n \in BaseIndexes(parts) :
                       \A m \in BaseIndexes(parts) : n <= m])

(***************************************************************************)
(* One export call.  glb is the mesh map the asset holds (what             *)
(* get_all_mesh_data returns for it), request the ExportRequest's          *)
(* articulation; both are inputs and never change.  pc is the position in  *)
(* export_usd, i the index of the running loop.  warnings holds the        *)
(* logger.warning and logger.error records (logger.info is not modelled),  *)
(* saved the layer written by save_stage, response the HTTP answer.        *)
(*                                                                         *)
(* The mesh reader has its own state: scene is what trimesh.load gives     *)
(* for the asset, parsed_parts and used_ids are the list and the set of    *)
(* parse_glb (upload), result and used_names the dict and the set of       *)
(* get_all_mesh_data (export).                                             *)
(***************************************************************************)
VARIABLES glb, request, pc, i, mesh_data, stage, part_paths, warnings, saved,
          response, scene, parsed_parts, used_ids, result, used_names,
          glb_file, suspended

vars == <<glb, request, pc, i, mesh_data, stage, part_paths, warnings, saved,
          response, scene, parsed_parts, used_ids, result, used_names,
          glb_file, suspended>>

\* what surrounds one call: glb_file says whether the uploaded file is there
\* and whether trimesh can load it; suspended holds the locals of a second
\* export call while the first one runs
hostVars == <<glb_file, suspended>>

readerVars == <<scene, parsed_parts, used_ids, result, used_names>>

exportVars == <<glb, request, mesh_data, stage, part_paths, warnings, saved, response>>

NoResponse == [status_code |-> 0]

\* except Exception as e: logger.error(...); raise HTTPException(500, ...)
ExportFailed(detail) ==
    /\ warnings' = Append(warnings, [level |-> "error", msg |-> "Export failed",
                                     name |-> detail])
    /\ response' = [status_code |-> 500, detail |-> detail]
    /\ pc' = "done"

\* the Literal fields of schemas.Part and schemas.Joint
IsPartType(t) == t \in {"link", "joint", "base", "tool"}

\* a Joint whose type is a plain str
IsJointTypeUnchecked(t) == TRUE

IsJointType(t) == t \in {"fixed", "revolute", "prismatic"}

\* what pydantic accepts as an ArticulationData
IsValidRequest(articulation) ==
    /\ \A n \in 1..Len(articulation.parts) :
          /\ IsPartType(articulation.parts[n].type)
          /\ articulation.parts[n].role
                 \in {"actuator", "support", "gripper", "sensor", "other"}
          /\ articulation.parts[n].mobility \in {"fixed", "revolute", "prismatic"}
          /\ articulation.parts[n].collision_type
                 \in {"mesh", "convexHull", "convexDecomposition", "none"}
    /\ \A n \in 1..Len(articulation.joints) :
          /\ IsJointType(articulation.joints[n].type)
          /\ articulation.joints[n].drive_type \in {"position", "velocity", "none"}

\* export_usd(request: ExportRequest): the request is validated before the
\* body runs (422), then "if not glb_path.exists(): raise HTTPException(404)"
ReceiveRequest ==
    /\ pc = "request"
    /\ IF ~IsValidRequest(request)
       THEN /\ response' = [status_code |-> 422, detail |-> "validation error"]
            /\ pc' = "done"
       ELSE IF glb_file = "missing"
            THEN /\ response' = [status_code |-> 404, detail |-> "GLB file not found"]
                 /\ pc' = "done"
            ELSE /\ pc' = "export"
                 /\ UNCHANGED response
    /\ UNCHANGED <<glb, request, i, mesh_data, stage, part_paths, warnings, saved>>
    /\ UNCHANGED readerVars
    /\ UNCHANGED hostVars

\* an export that goes on with whatever the reader returned
NoMeshDataIgnored(m) == FALSE

\* if not mesh_data:
NoMeshData(m) == m = <<>>

\* mesh_data = glb_parser.get_all_mesh_data(...); if not mesh_data: raise
GetMeshData ==
    /\ pc = "export"
    /\ IF glb_file = "unreadable"
       THEN \* trimesh.load raises
            /\ ExportFailed("cannot load the GLB file")
            /\ UNCHANGED mesh_data
       ELSE /\ mesh_data' = glb
            /\ IF NoMeshData(glb)
               THEN ExportFailed("No mesh data found in GLB file")
               ELSE /\ pc' = "create_stage"
                    /\ UNCHANGED <<warnings, response>>
    /\ UNCHANGED <<glb, request, i, stage, part_paths, saved>>
    /\ UNCHANGED readerVars
    /\ UNCHANGED hostVars

\* build_from_parts: stage = self.create_stage(filename, model_name)
CreateStage ==
    /\ pc = "create_stage"
    /\ stage' = create_stage(request.model_name)
    /\ pc' = "add_physics_scene"
    /\ UNCHANGED <<glb, request, i, mesh_data, part_paths, warnings, saved, response>>
    /\ UNCHANGED readerVars
    /\ UNCHANGED hostVars

\* build_from_parts: self.add_physics_scene(stage); part_paths = {}
AddPhysicsScene ==
    /\ pc = "add_physics_scene"
    /\ stage' = add_physics_scene(stage)
    /\ part_paths' = <<>>
    /\ i' = 1
    /\ pc' = "add_mesh_prim"
    /\ UNCHANGED <<glb, request, mesh_data, warnings, saved, response>>
    /\ UNCHANGED readerVars
    /\ UNCHANGED hostVars

\* build_from_parts: one turn of "for part_id, data in mesh_data.items()"
AddMeshPrim ==
    /\ pc = "add_mesh_prim"
    /\ LET part_id == mesh_data[i].k
           data == mesh_data[i].v
           root_path == DefaultPrimPath(stage)
           name == part_name(request.parts, part_id)
       IN  /\ stage' = add_mesh_prim(stage, root_path, name, data)
           /\ part_paths' = DictSet(part_paths, part_id, XformPath(root_path, name))
    /\ IF i < Len(mesh_data)
       THEN i' = i + 1 /\ pc' = "add_mesh_prim"
       ELSE i' = 1 /\ pc' = "inject_root"
    /\ UNCHANGED <<glb, request, mesh_data, warnings, saved, response>>
    /\ UNCHANGED readerVars
    /\ UNCHANGED hostVars

AfterParts == IF request.joints # <<>> THEN "inject_joints" ELSE "save"

AfterRoot == IF request.parts # <<>> THEN "inject_parts" ELSE AfterParts

\* a root selection that marks nothing for an empty part list
RootChoiceSkippingEmpty(parts, paths) ==
    IF parts = <<>> \/ paths = <<>> THEN None
    ELSE LET base_part == _find_base_part(parts)
         IN  IF base_part # None /\ TheValue(base_part).id \in DictKeys(paths)
             THEN Some(DictGet(paths, TheValue(base_part).id))
             ELSE Some(paths[1].v)

\* a root selection that looks for the first base part with a resolved path
RootChoiceAmongResolved(parts, paths) ==
    LET base_part == _find_base_part(SelectSeq(parts, LAMBDA p : p.id \in DictKeys(paths)))
    IN  IF base_part # None
        THEN Some(DictGet(paths, TheValue(base_part).id))
        ELSE IF paths # <<>> THEN Some(paths[1].v) ELSE None

\* the prim inject_physics marks as articulation root: None when it marks none
RootChoice(parts, paths) ==
    LET base_part == _find_base_part(parts)
    IN  IF base_part # None /\ TheValue(base_part).id \in DictKeys(paths)
        THEN Some(DictGet(paths, TheValue(base_part).id))
        ELSE IF paths # <<>> THEN Some(paths[1].v) ELSE None

\* inject_physics: the articulation root
ApplyRoot ==
    /\ pc = "inject_root"
    /\ LET root == RootChoice(request.parts, part_paths)
       IN  IF root = None
           THEN /\ pc' = AfterRoot
                /\ UNCHANGED <<stage, warnings, response>>
           ELSE IF IsValid(stage, TheValue(root))
                THEN /\ stage' = apply_articulation_root(stage, TheValue(root))
                     /\ pc' = AfterRoot
                     /\ UNCHANGED <<warnings, response>>
                ELSE /\ ExportFailed("Prim not found")
                     /\ UNCHANGED stage
    /\ i' = 1
    /\ UNCHANGED <<glb, request, mesh_data, part_paths, saved>>
    /\ UNCHANGED readerVars
    /\ UNCHANGED hostVars

\* inject_physics: the body of "for part in articulation_data.parts" for a
\* part whose id is in part_paths
AnnotatedPart(st, part, prim_path) ==
    LET mesh_path == Append(prim_path, MeshName)
        body == apply_rigid_body(st, prim_path, part.type = "base", part.mass,
                                 part.density, part.center_of_mass)
    IN  IF IsValid(body, mesh_path)
        THEN apply_collision(body, mesh_path, part.collision_type)
        ELSE body

\* a part loop that looks the path up without testing for it
AnnotatePartRaising ==
    /\ pc = "inject_parts"
    /\ LET part == request.parts[i]
       IN  IF part.id \notin DictKeys(part_paths)
           THEN /\ ExportFailed("KeyError")
                /\ UNCHANGED stage
           ELSE /\ stage' = AnnotatedPart(stage, part, DictGet(part_paths, part.id))
                /\ pc' = IF i < Len(request.parts) THEN "inject_parts" ELSE AfterParts
                /\ UNCHANGED <<warnings, response>>
    /\ i' = IF i < Len(request.parts) THEN i + 1 ELSE 1
    /\ UNCHANGED <<glb, request, mesh_data, part_paths, saved>>
    /\ UNCHANGED readerVars
    /\ UNCHANGED hostVars

\* inject_physics: one turn of "for part in articulation_data.parts"
AnnotatePart ==
    /\ pc = "inject_parts"
    /\ LET part == request.parts[i]
       IN  IF part.id \notin DictKeys(part_paths)
           THEN /\ warnings' = Append(warnings,
                                  [level |-> "warning", msg |-> "Part not found in USD stage",
                                   name |-> part.id])
                /\ pc' = IF i < Len(request.parts) THEN "inject_parts" ELSE AfterParts
                /\ UNCHANGED <<stage, response>>
           ELSE IF IsValid(stage, DictGet(part_paths, part.id))
                THEN /\ stage' = AnnotatedPart(stage, part, DictGet(part_paths, part.id))
                     /\ pc' = IF i < Len(request.parts) THEN "inject_parts" ELSE AfterParts
                     /\ UNCHANGED <<warnings, response>>
                ELSE /\ ExportFailed("Prim not found")
                     /\ UNCHANGED stage
    /\ i' = IF i < Len(request.parts) THEN i + 1 ELSE 1
    /\ UNCHANGED <<glb, request, mesh_data, part_paths, saved>>
    /\ UNCHANGED readerVars
    /\ UNCHANGED hostVars

\* a test that forgets the child
AdmittedByParent(joint, paths) == joint.parent \in DictKeys(paths)

\* a test that drops a joint only when both ends are missing
AdmittedUnlessBothMissing(joint, paths) ==
    ~(joint.parent \notin DictKeys(paths) /\ joint.child \notin DictKeys(paths))

\* inject_physics: whether the joint loop goes on to create the joint
Admitted(joint, paths) ==
    ~(joint.parent \notin DictKeys(paths) \/ joint.child \notin DictKeys(paths))

\* inject_physics: the if/elif chain on joint.type
CreatedJoint(st, joint, parent_path, child_path) ==
    IF joint.type = "revolute"
    THEN create_revolute_joint(st, joint, parent_path, child_path)
    ELSE IF joint.type = "prismatic"
         THEN create_prismatic_joint(st, joint, parent_path, child_path)
         ELSE IF joint.type = "fixed"
              THEN create_fixed_joint(st, joint, parent_path, child_path)
              ELSE st

\* inject_physics: one turn of "for joint in articulation_data.joints"
CreateJoint ==
    /\ pc = "inject_joints"
    /\ LET joint == request.joints[i]
       IN  IF ~Admitted(joint, part_paths)
           THEN /\ warnings' = Append(warnings,
                                  [level |-> "warning", msg |-> "parent or child not found",
                                   name |-> joint.name])
                /\ pc' = IF i < Len(request.joints) THEN "inject_joints" ELSE "save"
                /\ UNCHANGED <<stage, response>>
           ELSE IF {joint.parent, joint.child} \subseteq DictKeys(part_paths)
                THEN /\ stage' = CreatedJoint(stage, joint,
                                              DictGet(part_paths, joint.parent),
                                              DictGet(part_paths, joint.child))
                     /\ pc' = IF i < Len(request.joints) THEN "inject_joints" ELSE "save"
                     /\ UNCHANGED <<warnings, response>>
                ELSE \* part_paths[...] raises KeyError
                     /\ ExportFailed("KeyError")
                     /\ UNCHANGED stage
    /\ i' = IF i < Len(request.joints) THEN i + 1 ELSE 1
    /\ UNCHANGED <<glb, request, mesh_data, part_paths, saved>>
    /\ UNCHANGED readerVars
    /\ UNCHANGED hostVars

\* an export that answers without saving
SaveStageSkipped ==
    /\ pc = "save"
    /\ pc' = "respond"
    /\ UNCHANGED <<glb, request, i, mesh_data, stage, part_paths, warnings, saved,
                   response>>
    /\ UNCHANGED readerVars
    /\ UNCHANGED hostVars

\* output_path = usd_builder.save_stage(stage)
SaveStage ==
    /\ pc = "save"
    /\ saved' = Some(stage)
    /\ pc' = "respond"
    /\ UNCHANGED <<glb, request, i, mesh_data, stage, part_paths, warnings, response>>
    /\ UNCHANGED readerVars
    /\ UNCHANGED hostVars

\* return ExportResponse(success=True, message=..., download_url=..., filename=...)
Respond ==
    /\ pc = "respond"
    /\ response' = [status_code |-> 200, success |-> TRUE,
                    message |-> "Successfully exported",
                    download_url |-> "/api/download/<filename>",
                    filename |-> "<filename>"]
    /\ pc' = "done"
    /\ UNCHANGED <<glb, request, i, mesh_data, stage, part_paths, warnings, saved>>
    /\ UNCHANGED readerVars
    /\ UNCHANGED hostVars

\* no second call
NoCall == [pc |-> "none"]

\* what belongs to one call of export_usd: its request, the file the request
\* names, and the locals of export_usd, build_from_parts and inject_physics
Locals ==
    [glb |-> glb, glb_file |-> glb_file, request |-> request, pc |-> pc, i |-> i,
     mesh_data |-> mesh_data, stage |-> stage, part_paths |-> part_paths,
     saved |-> saved, response |-> response]

\* a path map kept on the builder singleton: a resumed call finds the one the
\* other call left there
ResumedPathsOfBuilder(call) == part_paths

\* build_from_parts: part_paths = {} is a local of the call
ResumedPaths(call) == call.part_paths

\* the other call in flight runs on: between two steps of the running call
\* when the calls are served by threads or worker processes, and between two
\* calls on one event loop (export_usd has no await)
Switch ==
    /\ suspended # NoCall
    /\ suspended' = Locals
    /\ glb' = suspended.glb
    /\ glb_file' = suspended.glb_file
    /\ request' = suspended.request
    /\ pc' = suspended.pc
    /\ i' = suspended.i
    /\ mesh_data' = suspended.mesh_data
    /\ stage' = suspended.stage
    /\ part_paths' = ResumedPaths(suspended)
    /\ saved' = suspended.saved
    /\ response' = suspended.response
    /\ UNCHANGED warnings
    /\ UNCHANGED readerVars

Next ==
    \/ ReceiveRequest
    \/ GetMeshData
    \/ CreateStage
    \/ AddPhysicsScene
    \/ AddMeshPrim
    \/ ApplyRoot
    \/ AnnotatePart
    \/ CreateJoint
    \/ SaveStage
    \/ Respond

(***************************************************************************)
(* Inputs.  The bounds are the lengths of the three lists and the range of *)
(* an axis component; the values are those of schemas.py.                  *)
(***************************************************************************)
MaxMesh == 2

MaxParts == 2

MaxJoints == 2

MaxAxis == 3

P1 == <<"p", "1">>

P2 == <<"p", "2">>

P3 == <<"p", "3">>

Ids == {P1, P2, P3}

Robot == <<"r", "o", "b", "o", "t">>

\* display and joint names: NameDash and NameUnder are distinct strings that
\* both sanitize to a_b
NameDash == <<"a", "-", "b">>

NameUnder == <<"a", "_", "b">>

NameC == <<"c">>

SeqsUpTo(S, n) == UNION {[1..k -> S] : k \in 0..n}

IsInjective(q) == \A m, n \in 1..Len(q) : q[m] = q[n] => m = n

\* the mesh maps of an asset: distinct ids in the reader's order, each with
\* its own geometry
MeshMaps(ids, n) ==
    {[k \in 1..Len(q) |-> [k |-> q[k], v |-> <<"geometry of", q[k]>>]] :
        q \in {r \in SeqsUpTo(ids, n) : IsInjective(r)}}

\* schemas.Part with its defaults
Part(id, name) ==
    [id |-> id, name |-> name, type |-> "link", role |-> "other",
     mobility |-> "fixed", mass |-> None, density |-> Some(DefaultDensity),
     center_of_mass |-> None, collision_type |-> "convexHull"]

\* schemas.Joint with its defaults
Joint(name, parent, child) ==
    [name |-> name, parent |-> parent, child |-> child, type |-> "revolute",
     axis |-> <<0, 0, 1>>, anchor |-> <<0, 0, 0>>,
     lower_limit |-> Some(-180), upper_limit |-> Some(180),
     drive_stiffness |-> Some(1000), drive_damping |-> Some(100),
     drive_max_force |-> Some(1000), drive_type |-> "position"]

\* schemas.ArticulationData
ArticulationData(parts, joints) ==
    [model_name |-> Robot, parts |-> parts, joints |-> joints]

\* no asset is being read
NoScene == [kind |-> "none"]

\* the state when export_usd is entered
EnteredWith(maps, requests, files) ==
    /\ glb \in maps
    /\ request \in requests
    /\ pc = "request"
    /\ i = 1
    /\ mesh_data = <<>>
    /\ stage = <<>>
    /\ part_paths = <<>>
    /\ warnings = <<>>
    /\ saved = None
    /\ response = NoResponse
    /\ scene = NoScene
    /\ parsed_parts = <<>>
    /\ used_ids = {}
    /\ result = <<>>
    /\ used_names = {}
    /\ glb_file \in files
    /\ suspended = NoCall

Entered(maps, requests) == EnteredWith(maps, requests, {"readable"})

\* root selection: every order of up to MaxMesh meshes, every list of up to
\* MaxParts parts of kind link or base
RootParts == {[Part(id, id) EXCEPT !.type = t] : id \in Ids, t \in {"link", "base"}}

RootRequests ==
    {ArticulationData(parts, joints) :
        parts \in SeqsUpTo(RootParts, MaxParts),
        joints \in {<<>>, <<Joint(NameC, P1, P2)>>}}

InitRoot == Entered(MeshMaps(Ids, MaxMesh), RootRequests)

SpecRoot == InitRoot /\ [][Next]_vars

\* joint admission: meshes p1 and p2 with their parts, and every list of up
\* to MaxJoints joints between them and the id p3 that has no mesh
AdmissionJoints ==
    {[Joint(name, ends[1], ends[2]) EXCEPT !.type = t] :
        name \in {NameDash, NameUnder, NameC},
        ends \in {<<P1, P2>>, <<P1, P3>>, <<P3, P2>>},
        t \in {"revolute", "fixed"}}

AdmissionRequests ==
    {ArticulationData(<<Part(P1, P1), Part(P2, P2)>>, joints) :
        joints \in SeqsUpTo(AdmissionJoints, MaxJoints)}

InitJoints == Entered(MeshMaps({P1, P2}, MaxMesh), AdmissionRequests)

SpecJoints == InitJoints /\ [][Next]_vars

\* the two meshes p1 and p2, in either order
BothMeshes == {m \in MeshMaps({P1, P2}, MaxMesh) : Len(m) = 2}

\* axis reduction: a revolute or prismatic joint of every axis with
\* components in -MaxAxis..MaxAxis, alone or after a joint of axis Y whose
\* name sanitizes to the same prim name
Axes == [1..3 -> -MaxAxis..MaxAxis]

AxisJoints ==
    {[Joint(name, P1, P2) EXCEPT !.type = t, !.axis = axis] :
        name \in {NameUnder, NameC}, t \in {"revolute", "prismatic"}, axis \in Axes}

AxisRequests ==
    {ArticulationData(<<Part(P1, P1), Part(P2, P2)>>, joints) :
        joints \in {<<j>> : j \in AxisJoints}
               \cup {<<[Joint(NameDash, P1, P2) EXCEPT !.axis = <<0, 1, 0>>], j>> :
                        j \in AxisJoints}}

InitAxis == Entered(BothMeshes, AxisRequests)

SpecAxis == InitAxis /\ [][Next]_vars

\* mass and density: part n has the id of mesh n; the display names of the
\* two parts sanitize to the same prim name or to different ones
Masses == {None, Some(0), Some(2)}

Densities == {None, Some(0), Some(500)}

MassParts(id, names) ==
    {[Part(id, name) EXCEPT !.mass = m, !.density = d] :
        name \in names, m \in Masses, d \in Densities}

MassRequests ==
    {ArticulationData(parts, <<Joint(NameC, P1, P2)>>) :
        parts \in {<<a>> : a \in MassParts(P1, {NameDash})}
              \cup {<<a, b>> : a \in MassParts(P1, {NameDash}),
                               b \in MassParts(P2, {NameUnder, NameC})}}

InitMass == Entered(BothMeshes, MassRequests)

SpecMass == InitMass /\ [][Next]_vars

\* drives: up to MaxJoints revolute or prismatic joints between p1 and p2,
\* with names that differ, of every drive type, with and without stiffness
\* and damping
DriveJoints ==
    {[Joint(name, P1, P2) EXCEPT !.type = t, !.drive_type = dt,
                                 !.drive_stiffness = k, !.drive_damping = c] :
        name \in {NameDash, NameUnder}, t \in {"revolute", "prismatic"},
        dt \in {"position", "velocity", "none"},
        k \in {None, Some(1000)}, c \in {None, Some(100)}}

DriveRequests ==
    {ArticulationData(<<Part(P1, P1), Part(P2, P2)>>, joints) :
        joints \in {q \in SeqsUpTo(DriveJoints, MaxJoints) :
                       q # <<>> /\ IsInjective([n \in 1..Len(q) |-> q[n].name])}}

InitDrive == Entered({m \in BothMeshes : m[1].k = P1}, DriveRequests)

SpecDrive == InitDrive /\ [][Next]_vars

\* the builder: every mesh map over p1 and p2 and every list of up to
\* MaxParts parts with display names that collide or not
BuildParts ==
    {Part(id, name) : id \in {P1, P2},
                      name \in {NameDash, NameUnder, NameC, PhysicsSceneName}}

BuildRequests ==
    {ArticulationData(parts, <<Joint(NameC, P1, P2)>>) :
        parts \in SeqsUpTo(BuildParts, MaxParts)}

InitBuild == Entered(MeshMaps({P1, P2}, MaxMesh), BuildRequests)

SpecBuild == InitBuild /\ [][Next]_vars

\* part kinds and collision shapes: part n has the id of mesh n, of every
\* type and collision type, with display names that sanitize to the same
\* prim name or to different ones
KindParts(id, names) ==
    {[Part(id, name) EXCEPT !.type = t, !.collision_type = c] :
        name \in names, t \in {"link", "joint", "base", "tool"},
        c \in {"mesh", "convexHull", "convexDecomposition", "none"}}

KindRequests ==
    {ArticulationData(parts, <<Joint(NameC, P1, P2)>>) :
        parts \in {<<a>> : a \in KindParts(P1, {NameDash})}
              \cup {<<a, b>> : a \in KindParts(P1, {NameDash}),
                               b \in KindParts(P2, {NameUnder, NameC})}}

InitKind == Entered(BothMeshes, KindRequests)

SpecKind == InitKind /\ [][Next]_vars

\* joint kinds and limits: one or two joints between p1 and p2, with names
\* that differ, of every type, with and without each limit and a drive
LimitJoints ==
    {[Joint(name, P1, P2) EXCEPT !.type = t, !.lower_limit = lo, !.upper_limit = up,
                                 !.drive_type = dt] :
        name \in {NameDash, NameUnder}, t \in {"revolute", "prismatic", "fixed"},
        lo \in {None, Some(-90)}, up \in {None, Some(90)},
        dt \in {"position", "none"}}

LimitRequests ==
    {ArticulationData(<<Part(P1, P1), Part(P2, P2)>>, joints) :
        joints \in {q \in SeqsUpTo(LimitJoints, MaxJoints) :
                       q # <<>> /\ IsInjective([n \in 1..Len(q) |-> q[n].name])}}

InitLimits == Entered({m \in BothMeshes : m[1].k = P1}, LimitRequests)

SpecLimits == InitLimits /\ [][Next]_vars

\* names: one string of up to MaxLen characters, among them a digit, an
\* underscore, a dash and a letter outside ASCII, used as the model name, as
\* the display name of part p1 and as the name of the joint from p1 to p2
MaxLen == 3

NameChars == {"a", "1", "_", "-", EAcute}

RawNames == SeqsUpTo(NameChars, MaxLen)

NameRequests ==
    {[ArticulationData(<<Part(P1, name), Part(P2, NameC)>>, <<Joint(name, P1, P2)>>)
         EXCEPT !.model_name = name] : name \in RawNames}

InitNames == Entered(BothMeshes, NameRequests)

SpecNames == InitNames /\ [][Next]_vars

\* two calls in flight: each with its own file of up to MaxMesh meshes, and a
\* request with p1 as base part, with both parts and a joint between them,
\* or with a joint of a type the schema rejects
ConcurrentRequests ==
    {ArticulationData(<<[Part(P1, NameC) EXCEPT !.type = "base"]>>, <<>>),
     ArticulationData(<<Part(P1, P1), Part(P2, P2)>>, <<Joint(NameC, P1, P2)>>),
     ArticulationData(<<Part(P2, NameDash)>>,
                      <<[Joint(NameC, P1, P2) EXCEPT !.type = "spherical"]>>)}

NewCall(meshes, articulation) ==
    [glb |-> meshes, glb_file |-> "readable", request |-> articulation,
     pc |-> "request", i |-> 1, mesh_data |-> <<>>, stage |-> <<>>,
     part_paths |-> <<>>, saved |-> None, response |-> NoResponse]

InitConcurrent ==
    /\ glb \in MeshMaps({P1, P2}, MaxMesh)
    /\ request \in ConcurrentRequests
    /\ pc = "request"
    /\ i = 1
    /\ mesh_data = <<>>
    /\ stage = <<>>
    /\ part_paths = <<>>
    /\ warnings = <<>>
    /\ saved = None
    /\ response = NoResponse
    /\ scene = NoScene
    /\ parsed_parts = <<>>
    /\ used_ids = {}
    /\ result = <<>>
    /\ used_names = {}
    /\ glb_file = "readable"
    /\ suspended \in {NewCall(meshes, articulation) :
                          meshes \in MeshMaps({P1, P2}, MaxMesh),
                          articulation \in ConcurrentRequests}

SpecConcurrent == InitConcurrent /\ [][Next \/ Switch]_vars

\* what a caller can send: the file missing, unreadable, or readable with up
\* to MaxMesh meshes, and up to MaxJoints joints of a known type or of the
\* type spherical, between p1 and p2 or from p1 to itself
RequestJoints ==
    {[Joint(name, ends[1], ends[2]) EXCEPT !.type = t] :
        name \in {NameUnder, NameC},
        ends \in {<<P1, P2>>, <<P1, P1>>},
        t \in {"revolute", "fixed", "spherical"}}

Requests ==
    {ArticulationData(<<Part(P1, P1), Part(P2, P2)>>, joints) :
        joints \in SeqsUpTo(RequestJoints, MaxJoints)}

GlbFiles == {"readable", "missing", "unreadable"}

InitRequest ==
    /\ EnteredWith(MeshMaps({P1, P2}, MaxMesh), Requests, GlbFiles)
    /\ glb_file # "readable" => glb = <<>>

SpecRequest == InitRequest /\ [][Next]_vars

(***************************************************************************)
(* The mesh reader: parse_glb at upload, get_all_mesh_data at export, on   *)
(* the same asset.  A scene has its geometry dict in order (key, and       *)
(* whether the geometry is a trimesh.Trimesh) and the nodes of its graph   *)
(* (name and the geometry the node refers to, None when it has none).      *)
(***************************************************************************)
Mesh0 == <<"m", "e", "s", "h", "_", "0">>

PartPrefix == <<"P", "a", "r", "t", "_">>

MeshToDict(geometry_key) == <<"geometry of", geometry_key>>

\* the loop over scene.graph.nodes that both readers run: the first node that
\* refers to a geometry of the scene gives it its name
RECURSIVE geometry_to_node(_, _)
geometry_to_node(nodes, geometry_keys) ==
    IF nodes = <<>> THEN <<>>
    ELSE LET before == geometry_to_node(SubSeq(nodes, 1, Len(nodes) - 1), geometry_keys)
             node == nodes[Len(nodes)]
         IN  IF /\ node.geometry # None
                /\ TheValue(node.geometry) # <<>>
                /\ TheValue(node.geometry) \in geometry_keys
                /\ TheValue(node.geometry) \notin DictKeys(before)
             THEN DictSet(before, TheValue(node.geometry), node.name)
             ELSE before

\* node_name = geometry_to_node.get(geometry_key, geometry_key)
NodeName(sc, geometry_key) ==
    LET map == geometry_to_node(sc.nodes,
                                {sc.geometry[n].key : n \in 1..Len(sc.geometry)})
    IN  IF geometry_key \in DictKeys(map) THEN DictGet(map, geometry_key)
        ELSE geometry_key

\* parse_glb: scene = trimesh.load(...); parts = []
ParseGlb ==
    /\ pc = "parse_glb"
    /\ used_ids' = {}
    /\ i' = 1
    /\ IF scene.kind = "Trimesh"
       THEN /\ parsed_parts' = <<[id |-> Mesh0, name |-> Mesh0,
                                  mesh |-> MeshToDict(Mesh0)]>>
            /\ pc' = "get_all_mesh_data"
       ELSE /\ parsed_parts' = <<>>
            /\ pc' = IF scene.geometry # <<>> THEN "extract_parts"
                     ELSE "get_all_mesh_data"
    /\ UNCHANGED <<scene, result, used_names>>
    /\ UNCHANGED exportVars
    /\ UNCHANGED hostVars

\* _extract_parts_from_scene: one turn of
\* "for i, (geometry_key, mesh) in enumerate(scene.geometry.items())"
ExtractPart ==
    /\ pc = "extract_parts"
    /\ LET geometry_key == scene.geometry[i].key
           node_name == NodeName(scene, geometry_key)
           original_name == IF node_name # <<>> THEN node_name
                            ELSE PartPrefix \o Str(i - 1)
           part_id == _generate_unique_id(original_name, used_ids)
       IN  IF ~scene.geometry[i].trimesh
           THEN UNCHANGED <<parsed_parts, used_ids>>
           ELSE /\ used_ids' = used_ids \cup {part_id}
                /\ parsed_parts' = Append(parsed_parts,
                                          [id |-> part_id, name |-> original_name,
                                           mesh |-> MeshToDict(geometry_key)])
    /\ IF i < Len(scene.geometry)
       THEN i' = i + 1 /\ pc' = "extract_parts"
       ELSE i' = 1 /\ pc' = "get_all_mesh_data"
    /\ UNCHANGED <<scene, result, used_names>>
    /\ UNCHANGED exportVars
    /\ UNCHANGED hostVars

\* get_all_mesh_data: scene = trimesh.load(...); result = {}; used_names = set()
GetAllMeshData ==
    /\ pc = "get_all_mesh_data"
    /\ used_names' = {}
    /\ i' = 1
    /\ IF scene.kind = "Trimesh"
       THEN /\ result' = <<[k |-> Mesh0, v |-> MeshToDict(Mesh0)]>>
            /\ pc' = "read"
       ELSE /\ result' = <<>>
            /\ pc' = IF scene.geometry # <<>> THEN "mesh_to_dict" ELSE "read"
    /\ UNCHANGED <<scene, parsed_parts, used_ids>>
    /\ UNCHANGED exportVars
    /\ UNCHANGED hostVars

\* get_all_mesh_data: one turn of "for geometry_key, mesh in scene.geometry.items()"
ReadMesh ==
    /\ pc = "mesh_to_dict"
    /\ LET geometry_key == scene.geometry[i].key
           node_name == NodeName(scene, geometry_key)
           original_name == IF node_name # <<>> THEN node_name ELSE geometry_key
           part_id == _generate_unique_id(original_name, used_names)
       IN  IF ~scene.geometry[i].trimesh
           THEN UNCHANGED <<result, used_names>>
           ELSE /\ used_names' = used_names \cup {part_id}
                /\ result' = DictSet(result, part_id, MeshToDict(geometry_key))
    /\ IF i < Len(scene.geometry)
       THEN i' = i + 1 /\ pc' = "mesh_to_dict"
       ELSE i' = 1 /\ pc' = "read"
    /\ UNCHANGED <<scene, parsed_parts, used_ids>>
    /\ UNCHANGED exportVars
    /\ UNCHANGED hostVars

NextReader ==
    \/ ParseGlb
    \/ ExtractPart
    \/ GetAllMeshData
    \/ ReadMesh

\* the assets: up to MaxGeometry geometries with keys that differ, each a
\* Trimesh or not, each with no node or one node of its own; node names
\* differ, the empty name included
MaxGeometry == 3

GeometryKeys == {<<"s">>, <<"S">>, <<"s", "_", "1">>}

NodeNames ==
    {<<>>, <<"s">>, <<"S">>, <<"s", "_", "1">>, <<"-">>, <<EAcute>>,
     <<"_", "s", "-", "-", "S", "_">>}

GeometryChoices ==
    [key : GeometryKeys, trimesh : BOOLEAN, node : {None} \cup {Some(n) : n \in NodeNames}]

HasNode(g) == g.node # None

SceneOf(q) ==
    [kind |-> "Scene",
     geometry |-> [n \in 1..Len(q) |-> [key |-> q[n].key, trimesh |-> q[n].trimesh]],
     nodes |-> LET named == SelectSeq(q, HasNode)
               IN  [n \in 1..Len(named) |->
                       [name |-> TheValue(named[n].node),
                        geometry |-> Some(named[n].key)]]]

Scenes ==
    {SceneOf(q) :
        q \in {r \in SeqsUpTo(GeometryChoices, MaxGeometry) :
                  /\ IsInjective([n \in 1..Len(r) |-> r[n].key])
                  /\ IsInjective([n \in 1..Len(SelectSeq(r, HasNode)) |->
                                     SelectSeq(r, HasNode)[n].node])}}
    \cup {[kind |-> "Trimesh"]}

InitReader ==
    /\ scene \in Scenes
    /\ pc = "parse_glb"
    /\ i = 1
    /\ parsed_parts = <<>>
    /\ used_ids = {}
    /\ result = <<>>
    /\ used_names = {}
    /\ glb_file = "readable"
    /\ suspended = NoCall
    /\ glb = <<>>
    /\ request = ArticulationData(<<>>, <<>>)
    /\ mesh_data = <<>>
    /\ stage = <<>>
    /\ part_paths = <<>>
    /\ warnings = <<>>
    /\ saved = None
    /\ response = NoResponse

SpecReader == InitReader /\ [][NextReader]_vars

Init ==
    \/ InitRoot \/ InitJoints \/ InitAxis \/ InitMass \/ InitDrive \/ InitBuild
    \/ InitKind \/ InitLimits \/ InitRequest \/ InitNames

Spec == Init /\ [][Next]_vars

(***************************************************************************)
(* What the claims speak of.                                               *)
(***************************************************************************)
Succeeded == pc = "done" /\ response.status_code = 200

\* ApplyRoot has run and nothing failed
RootApplied == pc \in {"inject_parts", "inject_joints", "save", "respond"} \/ Succeeded

\* inject_physics has returned or raised
Injected == stage # <<>> /\ pc \in {"save", "respond", "done"}

\* the prims marked as articulation root
Marked == {p \in DOMAIN stage : "ArticulationRootAPI" \in stage[p].apis}

JointTypes == {"RevoluteJoint", "PrismaticJoint", "FixedJoint"}

JointPrims == {p \in DOMAIN stage : stage[p].type \in JointTypes}

Resolved(id) == id \in DictKeys(part_paths)

\* a joint both of whose ends are among the available parts
Available(joint) == joint.parent \in DictKeys(glb) /\ joint.child \in DictKeys(glb)

IsBase(n) == request.parts[n].type = "base"

C4_RootIsFirstListedPart ==
    (/\ RootApplied
     /\ request.parts # <<>>
     /\ \A n \in 1..Len(request.parts) : ~IsBase(n))
    => (Resolved(request.parts[1].id)
        => Marked = {DictGet(part_paths, request.parts[1].id)})

(***************************************************************************)
(* C5 as stated: with an empty part list nothing is annotated: no          *)
(* articulation root, no rigid body, mass or collision, no joint prim.     *)
(***************************************************************************)
NoBodyAnnotation ==
    \A p \in DOMAIN stage :
        /\ stage[p].apis \cap {"RigidBodyAPI", "MassAPI", "CollisionAPI",
                               "MeshCollisionAPI"} = {}
        /\ stage[p].kinematicEnabled = None
        /\ stage[p].mass = None
        /\ stage[p].density = None
        /\ stage[p].centerOfMass = None
        /\ stage[p].approximation = None

Dangling(joint) == ~Available(joint)

DanglingJoints == SelectSeq(request.joints, Dangling)

C1_DanglingJointIsDroppedNotFatal ==
    Injected =>
        /\ response.status_code # 500
        /\ pc = "done" => Succeeded /\ saved = Some(stage)
        /\ JointPrims = {JointPath(stage, request.joints[n].name) :
                            n \in {m \in 1..Len(request.joints) :
                                      Available(request.joints[m])}}
        /\ \A n \in 1..Len(request.parts) :
              Resolved(request.parts[n].id) =>
                  LET prim_path == DictGet(part_paths, request.parts[n].id)
                  IN  /\ "RigidBodyAPI" \in stage[prim_path].apis
                      /\ "CollisionAPI" \in stage[Append(prim_path, MeshName)].apis

\* a dangling joint comes first, and a later joint still got its prim
C1_Witness ==
    /\ Succeeded
    /\ Len(request.joints) = 2
    /\ Dangling(request.joints[1])
    /\ Available(request.joints[2])
    /\ JointPrims = {JointPath(stage, request.joints[2].name)}
    /\ Cardinality(DictKeys(part_paths)) = 2

(***************************************************************************)
(* C2 as stated: the result of the export call holds one record per        *)
(* dropped joint, naming the joint.                                        *)
(***************************************************************************)
\* the drop records an ExportResponse carries
ReportedDrops(r) == IF "dropped_joints" \in DOMAIN r THEN r.dropped_joints ELSE <<>>

Names(q) == [n \in 1..Len(q) |-> q[n].name]

IsDropWarning(w) == w.level = "warning" /\ w.msg = "parent or child not found"

ClaimedToken(axis) ==
    IF Abs(axis[1]) >= Abs(axis[2]) /\ Abs(axis[1]) >= Abs(axis[3]) THEN "X"
    ELSE IF Abs(axis[2]) >= Abs(axis[3]) THEN "Y"
    ELSE "Z"

\* the turn of the joint loop for joint n has just ended
JustHandledJoint(n) ==
    \/ pc = "inject_joints" /\ i = n + 1
    \/ pc = "save" /\ n = Len(request.joints)

HasAxis(joint) == joint.type \in {"revolute", "prismatic"}

C6_AxisReducesToDominantToken ==
    \A n \in 1..Len(request.joints) :
        LET joint == request.joints[n]
        IN  /\ _axis_to_token(joint.axis) = ClaimedToken(joint.axis)
            /\ (JustHandledJoint(n) /\ Available(joint) /\ HasAxis(joint)) =>
                   stage[JointPath(stage, joint.name)].axis
                       = Some(ClaimedToken(joint.axis))

\* (1,2,3) gives Z, written over the Y of an earlier joint at the same prim
C6_Witness ==
    /\ Len(request.joints) = 2
    /\ JustHandledJoint(2)
    /\ request.joints[2].axis = <<1, 2, 3>>
    /\ _axis_to_token(request.joints[1].axis) = "Y"
    /\ JointPath(stage, request.joints[1].name) = JointPath(stage, request.joints[2].name)
    /\ stage[JointPath(stage, request.joints[2].name)].axis = Some("Z")

(***************************************************************************)
(* C7 as stated: the prim of every annotated part whose mass is set holds  *)
(* that mass and no density, and no prim holds both a mass and a density.  *)
(***************************************************************************)
C7_MassExcludesDensity ==
    Injected =>
        /\ \A n \in 1..Len(request.parts) :
              LET part == request.parts[n]
              IN  (Resolved(part.id) /\ part.mass # None) =>
                      /\ stage[DictGet(part_paths, part.id)].mass = part.mass
                      /\ stage[DictGet(part_paths, part.id)].density = None
        /\ \A p \in DOMAIN stage : stage[p].mass = None \/ stage[p].density = None

(***************************************************************************)
(* C8 as stated, for a part that has its prim to itself: when the mass is  *)
(* not set the prim holds the part's own density when one is given, 0      *)
(* included, and 1000 when none is given, and no mass.                     *)
(***************************************************************************)
OwnPrim(id) ==
    \A other \in DictKeys(part_paths) :
        DictGet(part_paths, other) = DictGet(part_paths, id) => other = id

C8_DensityFallsBackOnlyWhenAbsent ==
    Injected =>
        \A n \in 1..Len(request.parts) :
            LET part == request.parts[n]
            IN  (Resolved(part.id) /\ OwnPrim(part.id) /\ part.mass = None) =>
                    /\ stage[DictGet(part_paths, part.id)].density
                           = IF part.density = None THEN Some(1000) ELSE part.density
                    /\ stage[DictGet(part_paths, part.id)].mass = None

(***************************************************************************)
(* C9 as stated, in the state in which the joint's prim has just been      *)
(* written: the prim has a drive if and only if the drive type is not      *)
(* none and the stiffness is present; the drive then holds the joint's     *)
(* stiffness, damping and max force and the one zero target of its drive   *)
(* type; the limits are those of the joint.                                *)
(***************************************************************************)
DriveKind(joint) == IF joint.type = "revolute" THEN "angular" ELSE "linear"

HasDrive(prim) == prim.apis \cap {"DriveAPI:angular", "DriveAPI:linear"} # {}

C9_DriveIffTypeAndStiffness ==
    \A n \in 1..Len(request.joints) :
        LET joint == request.joints[n]
            prim == stage[JointPath(stage, joint.name)]
            drive == prim.drive[DriveKind(joint)]
        IN  (JustHandledJoint(n) /\ Available(joint) /\ HasAxis(joint)) =>
                /\ HasDrive(prim)
                       <=> (joint.drive_type # "none" /\ joint.drive_stiffness # None)
                /\ HasDrive(prim) =>
                       /\ drive.stiffness = joint.drive_stiffness
                       /\ drive.damping = joint.drive_damping
                       /\ drive.maxForce = joint.drive_max_force
                       /\ drive.targetPosition
                              = IF joint.drive_type = "position" THEN Some(0) ELSE None
                       /\ drive.targetVelocity
                              = IF joint.drive_type = "velocity" THEN Some(0) ELSE None
                /\ prim.lowerLimit = joint.lower_limit
                /\ prim.upperLimit = joint.upper_limit

(***************************************************************************)
(* C10 as stated: when build_from_parts returns for a mesh map of N ids,   *)
(* the path map has those N ids as keys, the root has N Xform children,    *)
(* each with the one child <xform>/mesh, a Mesh, and distinct ids have     *)
(* distinct Xform prims.                                                   *)
(***************************************************************************)
Children(path) ==
    {p \in DOMAIN stage : Len(p) = Len(path) + 1 /\ SubSeq(p, 1, Len(path)) = path}

Xforms == {p \in Children(DefaultPrimPath(stage)) : stage[p].type = "Xform"}

C10_BuilderIsOneToOne ==
    pc = "inject_root" =>
        /\ DictKeys(part_paths) = DictKeys(glb)
        /\ Len(part_paths) = Len(glb)
        /\ Cardinality(Xforms) = Len(glb)
        /\ \A x \in Xforms :
              /\ Children(x) = {Append(x, MeshName)}
              /\ stage[Append(x, MeshName)].type = "Mesh"
        /\ \A a, b \in DictKeys(part_paths) :
              a # b => DictGet(part_paths, a) # DictGet(part_paths, b)

(***************************************************************************)
(* C11 as stated: every stage build_from_parts returns, and every stage    *)
(* while and after inject_physics works on it, has exactly one prim of     *)
(* type PhysicsScene; it is root/PhysicsScene and holds the gravity        *)
(* direction (0,0,-1) and the magnitude 9.81.                              *)
(***************************************************************************)
Built == pc \in {"inject_root", "inject_parts", "inject_joints", "save", "respond"}
             \/ Succeeded

PhysicsScenes == {p \in DOMAIN stage : stage[p].type = "PhysicsScene"}

C11_OnePhysicsSceneAtRoot ==
    Built =>
        /\ PhysicsScenes = {Append(DefaultPrimPath(stage), PhysicsSceneName)}
        /\ \A p \in PhysicsScenes :
              /\ stage[p].gravityDirection = Some(<<0, 0, -1>>)
              /\ stage[p].gravityMagnitude = Some(981)

(***************************************************************************)
(* C12 as stated, for joints whose names are pairwise different: after     *)
(* inject_physics the stage has as many joint prims as admitted joints,    *)
(* all of them children of root/Joints, and the prim at                    *)
(* root/Joints/<sanitized name> of every admitted joint has the type and   *)
(* the two bodies of that joint.                                           *)
(***************************************************************************)
PrimTypeOf(joint) ==
    IF joint.type = "revolute" THEN "RevoluteJoint"
    ELSE IF joint.type = "prismatic" THEN "PrismaticJoint"
    ELSE "FixedJoint"

AdmittedIndexes == {n \in 1..Len(request.joints) : Available(request.joints[n])}

C12_OneNodePerAdmittedJoint ==
    (Injected /\ IsInjective(Names(request.joints))) =>
        /\ Cardinality(JointPrims) = Cardinality(AdmittedIndexes)
        /\ JointPrims \subseteq Children(JointsParentPath(stage))
        /\ \A n \in AdmittedIndexes :
              LET joint == request.joints[n]
                  prim == stage[JointPath(stage, joint.name)]
              IN  /\ prim.type = PrimTypeOf(joint)
                  /\ prim.body0 = <<DictGet(part_paths, joint.parent)>>
                  /\ prim.body1 = <<DictGet(part_paths, joint.child)>>

(***************************************************************************)
(* C13: the ids the two readers get from _generate_unique_id, each put in  *)
(* the used set before the next call, are pairwise different, so that the  *)
(* list of parse_glb has one part with an id of its own per Trimesh        *)
(* geometry handled so far, and the mesh map of get_all_mesh_data has one  *)
(* key per Trimesh geometry handled so far, each with the mesh of its      *)
(* geometry: no mesh is lost to a key collision.                           *)
(***************************************************************************)
\* the geometries of the scene the running loop has handled
Handled(loop, after) ==
    IF scene.kind # "Scene" THEN {}
    ELSE IF pc = loop THEN 1..(i - 1)
    ELSE IF pc \in after THEN 1..Len(scene.geometry)
    ELSE {}

Meshes(handled) == {n \in handled : scene.geometry[n].trimesh}

IdsOf(q) == [n \in 1..Len(q) |-> q[n].id]

C13_IdsArePairwiseDistinct ==
    /\ IsInjective(IdsOf(parsed_parts))
    /\ scene.kind = "Scene" =>
          LET uploaded == Meshes(Handled("extract_parts",
                                         {"get_all_mesh_data", "mesh_to_dict", "read"}))
              exported == Meshes(Handled("mesh_to_dict", {"read"}))
          IN  /\ Len(parsed_parts) = Cardinality(uploaded)
              /\ Cardinality(used_ids) = Cardinality(uploaded)
              /\ Len(result) = Cardinality(exported)
              /\ Cardinality(DictKeys(result)) = Cardinality(exported)
              /\ \A n \in exported :
                    \E m \in 1..Len(result) :
                        result[m].v = MeshToDict(scene.geometry[n].key)

\* the names s, S and s_1 in this order give s, s_1 and s_1_1
C13_Witness ==
    /\ pc = "read"
    /\ Len(result) = 3
    /\ [n \in 1..3 |-> result[n].k]
           = <<<<"s">>, <<"s", "_", "1">>, <<"s", "_", "1", "_", "1">>>>

(***************************************************************************)
(* C14 as stated: every id _generate_unique_id returned, at upload and at  *)
(* export, is non-empty and made of the characters a-z, 0-9 and "_" only,  *)
(* with no run of underscores and no underscore at either end; the id of   *)
(* a part whose raw name has no alphanumeric character starts with "part". *)
(***************************************************************************)
AsciiLower == Letters \ {"J", "P", "S"}

IdChars == AsciiLower \cup Digits \cup {"_"}

WellFormedId(id) ==
    /\ id # <<>>
    /\ \A k \in 1..Len(id) : id[k] \in IdChars
    /\ ~HasDouble(id)
    /\ id[1] # "_"
    /\ id[Len(id)] # "_"

NoAlnum(name) == \A k \in 1..Len(name) : name[k] \notin Letters \cup Digits \cup {EAcute}

C14_IdsAreWellFormed ==
    /\ \A n \in 1..Len(parsed_parts) :
          /\ WellFormedId(parsed_parts[n].id)
          /\ NoAlnum(parsed_parts[n].name) =>
                SubSeq(parsed_parts[n].id, 1, 4) = <<"p", "a", "r", "t">>
    /\ \A n \in 1..Len(result) : WellFormedId(result[n].k)

(***************************************************************************)
(* C15: the id of every part of parse_glb is the sanitized candidate of    *)
(* its raw name when no earlier part has that id, and otherwise            *)
(* candidate_k for the smallest k >= 1 such that no earlier part has       *)
(* candidate_k; the used sets hold the ids the callers added and nothing   *)
(* else, so the function itself never changed them.                        *)
(***************************************************************************)
SmallestFree(candidate, used) ==
    CHOOSE k \in 1..(Cardinality(used) + 1) :
        /\ Suffixed(candidate, k) \notin used
        /\ \A j \in 1..(k - 1) : Suffixed(candidate, j) \in used

ClaimedId(candidate, used) ==
    IF candidate \notin used THEN candidate
    ELSE Suffixed(candidate, SmallestFree(candidate, used))

C15_SuffixIsSmallestFree ==
    /\ \A n \in 1..Len(parsed_parts) :
          scene.kind = "Scene" =>
              parsed_parts[n].id
                  = ClaimedId(Sanitized(parsed_parts[n].name),
                              {parsed_parts[m].id : m \in 1..(n - 1)})
    /\ used_ids = {parsed_parts[n].id : n \in 1..Len(parsed_parts)}
           \/ scene.kind = "Trimesh"
    /\ used_names = DictKeys(result) \/ scene.kind = "Trimesh"

\* the names s_1, s and S in this order give s_1, s and s_2
C15_Witness ==
    /\ pc = "read"
    /\ IdsOf(parsed_parts) = <<<<"s", "_", "1">>, <<"s">>, <<"s", "_", "2">>>>
    /\ used_ids = {<<"s", "_", "1">>, <<"s">>, <<"s", "_", "2">>}

(***************************************************************************)
(* C16 as stated: for one asset, the ids of the parts parse_glb returns    *)
(* are, in order, the keys of the mesh map get_all_mesh_data returns, and  *)
(* each id stands for the same geometry in both.                           *)
(***************************************************************************)
C16_UploadAndExportIdsAgree ==
    pc = "read" =>
        /\ IdsOf(parsed_parts) = [n \in 1..Len(result) |-> result[n].k]
        /\ \A n \in 1..Len(parsed_parts) : parsed_parts[n].mesh = result[n].v

(***************************************************************************)
(* C17 as stated, in the state in which the turn of the part loop for the  *)
(* part has just ended: the prim of a part with a resolved path is a       *)
(* rigid body, and it has the kinematic flag if and only if the part's     *)
(* type is base.                                                           *)
(***************************************************************************)
JustHandledPart(n) ==
    \/ pc = "inject_parts" /\ i = n + 1
    \/ pc = AfterParts /\ i = 1 /\ n = Len(request.parts)

C17_KinematicIffBase ==
    \A n \in 1..Len(request.parts) :
        LET part == request.parts[n]
        IN  (JustHandledPart(n) /\ Resolved(part.id)) =>
                LET prim == stage[DictGet(part_paths, part.id)]
                IN  /\ "RigidBodyAPI" \in prim.apis
                    /\ prim.kinematicEnabled = Some(TRUE) <=> part.type = "base"
                    /\ prim.kinematicEnabled \in {None, Some(TRUE)}

(***************************************************************************)
(* C18: in the state in which the turn of the part loop for a part with a  *)
(* resolved path has just ended, the prim <path>/mesh has the collision    *)
(* schemas and the approximation convexHull for the collision type         *)
(* convexHull, convexDecomposition for convexDecomposition and none for    *)
(* every other type; and no transform prim of a part ever has a collision  *)
(* schema or an approximation.                                             *)
(***************************************************************************)
ClaimedApproximation(collision_type) ==
    CASE collision_type = "convexHull" -> "convexHull"
      [] collision_type = "convexDecomposition" -> "convexDecomposition"
      [] collision_type \in {"mesh", "none"} -> "none"
      [] OTHER -> "none"

C18_CollisionOnMeshWithFunnel ==
    /\ \A n \in 1..Len(request.parts) :
          LET part == request.parts[n]
          IN  (JustHandledPart(n) /\ Resolved(part.id)) =>
                  LET mesh == stage[Append(DictGet(part_paths, part.id), MeshName)]
                  IN  /\ {"CollisionAPI", "MeshCollisionAPI"} \subseteq mesh.apis
                      /\ mesh.approximation
                             = Some(ClaimedApproximation(part.collision_type))
    /\ \A n \in 1..Len(part_paths) :
          IsValid(stage, part_paths[n].v) =>
              /\ stage[part_paths[n].v].apis
                     \cap {"CollisionAPI", "MeshCollisionAPI"} = {}
              /\ stage[part_paths[n].v].approximation = None

\* a part of collision type mesh has just got the approximation none, on a
\* mesh prim an earlier part had given convexHull
C18_Witness ==
    /\ Len(request.parts) = 2
    /\ JustHandledPart(2)
    /\ request.parts[1].collision_type = "convexHull"
    /\ request.parts[2].collision_type = "mesh"
    /\ DictGet(part_paths, request.parts[1].id) = DictGet(part_paths, request.parts[2].id)
    /\ stage[Append(DictGet(part_paths, request.parts[2].id), MeshName)].approximation
           = Some("none")

(***************************************************************************)
(* C19 as stated, in the state in which the prim of an admitted revolute   *)
(* or prismatic joint has just been written: the prim has a lower limit    *)
(* if and only if the joint has one, and then the joint's value; the same  *)
(* for the upper limit, each on its own.                                   *)
(***************************************************************************)
C19_LimitsWrittenIffPresent ==
    \A n \in 1..Len(request.joints) :
        LET joint == request.joints[n]
            prim == stage[JointPath(stage, joint.name)]
        IN  (JustHandledJoint(n) /\ Available(joint) /\ HasAxis(joint)) =>
                /\ prim.lowerLimit # None <=> joint.lower_limit # None
                /\ prim.upperLimit # None <=> joint.upper_limit # None
                /\ joint.lower_limit # None => prim.lowerLimit = joint.lower_limit
                /\ joint.upper_limit # None => prim.upperLimit = joint.upper_limit

(***************************************************************************)
(* C20 as stated, in the state in which the prim of an admitted joint has  *)
(* just been written: the prim's type is that of the joint; a fixed joint  *)
(* has no axis, no limit and no drive; the drive of a revolute joint, if   *)
(* any, is angular and that of a prismatic joint linear.                   *)
(***************************************************************************)
DriveApis(prim) == prim.apis \cap {"DriveAPI:angular", "DriveAPI:linear"}

C20_PrimKindFollowsJointType ==
    \A n \in 1..Len(request.joints) :
        LET joint == request.joints[n]
            prim == stage[JointPath(stage, joint.name)]
        IN  (JustHandledJoint(n) /\ Available(joint)) =>
                /\ prim.type = PrimTypeOf(joint)
                /\ joint.type = "fixed" =>
                       /\ prim.axis = None
                       /\ prim.lowerLimit = None /\ prim.upperLimit = None
                       /\ DriveApis(prim) = {}
                /\ joint.type = "revolute" => DriveApis(prim) \subseteq {"DriveAPI:angular"}
                /\ joint.type = "prismatic" => DriveApis(prim) \subseteq {"DriveAPI:linear"}

(***************************************************************************)
(* C21: a request with a joint whose type is not fixed, revolute or        *)
(* prismatic never gets as far as a document: no stage is built, nothing   *)
(* is saved, and the call ends with an error response, never with          *)
(* success.                                                                *)
(***************************************************************************)
HasUnknownJoint ==
    \E n \in 1..Len(request.joints) :
        request.joints[n].type \notin {"fixed", "revolute", "prismatic"}

IsError(r) == r.status_code \in {400, 404, 422, 500}

C21_UnknownJointTypeIsFatal ==
    HasUnknownJoint =>
        /\ stage = <<>>
        /\ saved = None
        /\ ~Succeeded
        /\ pc = "done" => IsError(response)

\* the second joint is the unknown one, the meshes are there
C21_Witness ==
    /\ pc = "done"
    /\ glb_file = "readable" /\ Len(glb) = 2
    /\ Len(request.joints) = 2
    /\ request.joints[1].type = "revolute"
    /\ request.joints[2].type = "spherical"
    /\ response.status_code = 422
    /\ saved = None

(***************************************************************************)
(* C22: when the file is missing or unreadable, or the reader returns no   *)
(* mesh, a valid request ends with an error response that carries the      *)
(* reason; the call never reaches build_from_parts, inject_physics or      *)
(* save_stage, so no stage exists and nothing is saved.                    *)
(***************************************************************************)
NothingRead == glb_file # "readable" \/ glb = <<>>

Reason ==
    IF glb_file = "missing" THEN "GLB file not found"
    ELSE IF glb_file = "unreadable" THEN "cannot load the GLB file"
    ELSE "No mesh data found in GLB file"

C22_NoMeshAbortsBeforeBuild ==
    (NothingRead /\ IsValidRequest(request)) =>
        /\ pc \in {"request", "export", "done"}
        /\ stage = <<>>
        /\ part_paths = <<>>
        /\ saved = None
        /\ pc = "done" => (IsError(response) /\ response.detail = Reason)

\* a readable file without meshes, and a request with parts and a joint
C22_Witness ==
    /\ pc = "done"
    /\ glb_file = "readable" /\ glb = <<>> /\ mesh_data = <<>>
    /\ IsValidRequest(request) /\ Len(request.joints) >= 1
    /\ response.status_code = 500
    /\ response.detail = "No mesh data found in GLB file"
    /\ stage = <<>> /\ saved = None

(***************************************************************************)
(* The document one export call produces, as a function of what the reader *)
(* returned and of the articulation: build_from_parts followed by          *)
(* inject_physics, composed from the operators of the steps.               *)
(***************************************************************************)
RECURSIVE WithMeshes(_, _, _, _)
WithMeshes(b, meshes, parts, n) ==
    IF n > Len(meshes) THEN b
    ELSE LET root_path == DefaultPrimPath(b.stage)
             name == part_name(parts, meshes[n].k)
         IN  WithMeshes([stage |-> add_mesh_prim(b.stage, root_path, name, meshes[n].v),
                         part_paths |-> DictSet(b.part_paths, meshes[n].k,
                                                XformPath(root_path, name))],
                        meshes, parts, n + 1)

BuiltFrom(meshes, articulation) ==
    WithMeshes([stage |-> add_physics_scene(create_stage(articulation.model_name)),
                part_paths |-> <<>>],
               meshes, articulation.parts, 1)

RECURSIVE WithParts(_, _, _, _)
WithParts(st, parts, paths, n) ==
    IF n > Len(parts) THEN st
    ELSE WithParts(IF parts[n].id \in DictKeys(paths)
                   THEN AnnotatedPart(st, parts[n], DictGet(paths, parts[n].id))
                   ELSE st,
                   parts, paths, n + 1)

RECURSIVE WithJoints(_, _, _, _)
WithJoints(st, joints, paths, n) ==
    IF n > Len(joints) THEN st
    ELSE WithJoints(IF Admitted(joints[n], paths)
                    THEN CreatedJoint(st, joints[n], DictGet(paths, joints[n].parent),
                                      DictGet(paths, joints[n].child))
                    ELSE st,
                    joints, paths, n + 1)

DocumentOf(meshes, articulation) ==
    LET b == BuiltFrom(meshes, articulation)
        root == RootChoice(articulation.parts, b.part_paths)
        rooted == IF root = None THEN b.stage
                  ELSE apply_articulation_root(b.stage, TheValue(root))
    IN  WithJoints(WithParts(rooted, articulation.parts, b.part_paths, 1),
                   articulation.joints, b.part_paths, 1)

\* the articulation without the parts whose id is not a key of the path map
IsMissing(part) == part.id \notin DictKeys(glb)

WithoutMissing(articulation) ==
    [articulation EXCEPT !.parts = SelectSeq(@, LAMBDA part : ~IsMissing(part))]

HasMissingPart == \E n \in 1..Len(request.parts) : IsMissing(request.parts[n])

\* a document without its articulation root mark
Unrooted(st) ==
    [p \in DOMAIN st |-> [st[p] EXCEPT !.apis = @ \ {"ArticulationRootAPI"}]]

\* the first base part of the list is one of the missing parts
FirstBaseIsMissing ==
    LET base_part == _find_base_part(request.parts)
    IN  base_part # None /\ IsMissing(TheValue(base_part))

IsWellFormedName(s) ==
    /\ s # <<>>
    /\ \A k \in 1..Len(s) : s[k] \in Letters \cup Digits \cup {"_"}
    /\ s[1] \notin Digits
    /\ ~HasDouble(s)

\* what the claim says the sanitizer returns for a raw name
IsSanitizedAsClaimed(raw, s) ==
    /\ IsWellFormedName(s)
    /\ raw = <<>> => s = Unnamed
    /\ (raw # <<>> /\ raw[1] \in Digits) => (s[1] = "_" /\ s[2] = raw[1])
    /\ _sanitize_prim_name(s) = s
    /\ _sanitize_name(s) = s

LastOf(path) == path[Len(path)]

C24_SanitizedNamesAreWellFormed ==
    /\ stage # <<>> =>
          IsSanitizedAsClaimed(request.model_name, LastOf(DefaultPrimPath(stage)))
    /\ P1 \in DictKeys(part_paths) =>
          IsSanitizedAsClaimed(request.parts[1].name, LastOf(DictGet(part_paths, P1)))
    /\ (pc = "save" /\ Len(request.joints) = 1) =>
          \A p \in JointPrims :
              /\ IsSanitizedAsClaimed(request.joints[1].name, LastOf(p))
              /\ request.joints[1].name = request.parts[1].name =>
                    LastOf(p) = LastOf(DictGet(part_paths, P1))

(***************************************************************************)
(* C25: once inject_physics has chosen the root, exactly one prim of the   *)
(* document is marked articulation root: the node of the first base part   *)
(* of the list when its id is in the path map, and the first entry of the  *)
(* path map otherwise, whatever later base parts there are; while the path *)
(* map is empty no prim is marked.                                         *)
(***************************************************************************)
FirstBase == {n \in 1..Len(request.parts) : IsBase(n) /\ \A m \in 1..(n - 1) : ~IsBase(m)}

StepOf(p) ==
    CASE p = "request" -> 0
      [] p = "export" -> 1
      [] p \in {"create_stage", "add_physics_scene", "add_mesh_prim"} -> 2
      [] p \in {"inject_root", "inject_parts", "inject_joints"} -> 3
      [] p = "save" -> 4
      [] p = "respond" -> 5
      [] p = "done" -> 6

C26_StepsInOrder ==
    [][/\ StepOf(pc') >= StepOf(pc)
       /\ StepOf(pc') > StepOf(pc) =>
             \/ StepOf(pc') = StepOf(pc) + 1
             \/ pc' = "done" /\ response'.status_code # 200
       /\ pc' = "create_stage" => (mesh_data' = glb /\ glb # <<>>)
       /\ pc' = "inject_root" =>
             (stage' = BuiltFrom(mesh_data, request).stage /\ response' = NoResponse)
       /\ pc' = "save" => (stage' = DocumentOf(glb, request) /\ response' = NoResponse)
       /\ saved' # saved => (pc = "save" /\ saved' = Some(stage) /\ stage' = stage)
       /\ saved # None => (stage' = stage /\ saved' = saved)
       /\ response'.status_code = 200 => (pc = "respond" /\ saved = Some(stage))
      ]_vars

\* a successful export with a joint: what was saved is the final document
C26_Witness ==
    /\ Succeeded
    /\ Len(request.joints) = 2
    /\ JointPrims # {}
    /\ saved = Some(stage)
    /\ stage = DocumentOf(glb, request)

(***************************************************************************)
(* C27: with two export calls in flight and interleaved step by step in    *)
(* any order, each call that has ended has the status it has when run      *)
(* alone, and when that is a success its document, which is what it saved, *)
(* is the document the call produces alone.                                *)
(***************************************************************************)
AloneStatus(call) ==
    IF ~IsValidRequest(call.request) THEN 422
    ELSE IF call.glb_file = "missing" THEN 404
    ELSE IF call.glb_file = "unreadable" \/ call.glb = <<>> THEN 500
    ELSE 200

AsWhenAlone(call) ==
    call.pc = "done" =>
        /\ call.response.status_code = AloneStatus(call)
        /\ call.response.status_code = 200 =>
              /\ call.stage = DocumentOf(call.glb, call.request)
              /\ call.saved = Some(call.stage)

C27_InterleavedCallsAreIndependent ==
    /\ AsWhenAlone(Locals)
    /\ suspended # NoCall => AsWhenAlone(suspended)

\* one call has ended with its document, joint included, while the other one
\* is suspended in the middle of its part loop with a root of its own
C27_Witness ==
    /\ Succeeded
    /\ JointPrims # {}
    /\ stage = DocumentOf(glb, request)
    /\ suspended # NoCall
    /\ suspended.pc = "inject_parts"
    /\ suspended.request # request
    /\ \E p \in DOMAIN suspended.stage :
          /\ "ArticulationRootAPI" \in suspended.stage[p].apis
          /\ p \notin Marked

(***************************************************************************)
(* C28: every joint prim of the document has exactly one body0 and one     *)
(* body1 target, and they are the path-map entries of the parent and of    *)
(* the child of an admitted joint of the request that is written at that   *)
(* prim; right after a joint is created this holds for that very joint.    *)
(* Both targets are Xform prims of the document, and a target carries      *)
(* RigidBodyAPI whenever a part of the list has the id it stands for.      *)
(***************************************************************************)
InPartList(id) == \E n \in 1..Len(request.parts) : request.parts[n].id = id

IsBodyOf(target, id) ==
    /\ target = DictGet(part_paths, id)
    /\ IsValid(stage, target)
    /\ stage[target].type = "Xform"
    /\ InPartList(id) => "RigidBodyAPI" \in stage[target].apis

ConnectsItsParts(p, joint) ==
    /\ Admitted(joint, part_paths)
    /\ JointPath(stage, joint.name) = p
    /\ Len(stage[p].body0) = 1 /\ IsBodyOf(stage[p].body0[1], joint.parent)
    /\ Len(stage[p].body1) = 1 /\ IsBodyOf(stage[p].body1[1], joint.child)

C28_JointsReferenceTheirBodies ==
    /\ Injected =>
          \A p \in JointPrims :
              \E n \in 1..Len(request.joints) : ConnectsItsParts(p, request.joints[n])
    /\ \A n \in 1..Len(request.joints) :
          (JustHandledJoint(n) /\ Admitted(request.joints[n], part_paths)
               /\ request.joints[n].type \in {"fixed", "revolute", "prismatic"})
              => ConnectsItsParts(JointPath(stage, request.joints[n].name),
                                  request.joints[n])

\* the first joint is created, the second one dropped for a missing end
C28_Witness ==
    /\ Succeeded
    /\ Len(request.joints) = 2
    /\ Cardinality(JointPrims) = 1
    /\ ~Admitted(request.joints[2], part_paths)
    /\ \E p \in JointPrims :
          /\ ConnectsItsParts(p, request.joints[1])
          /\ stage[p].body0 # stage[p].body1

(***************************************************************************)
(* C29 as stated: no joint prim of the document has the same prim as       *)
(* body0 and as body1.                                                     *)
(***************************************************************************)
C29_JointsConnectDistinctBodies ==
    Injected => \A p \in JointPrims : stage[p].body0 # stage[p].body1

(***************************************************************************)
(* C30 as stated: a request that is accepted for export has at most one    *)
(* part of kind base, and no document has more than one kinematic body.    *)
(***************************************************************************)
Kinematic == {p \in DOMAIN stage : stage[p].kinematicEnabled = Some(TRUE)}

C30_AtMostOneBase ==
    /\ pc # "request" /\ IsValidRequest(request)
          => Cardinality(BaseIndexes(request.parts)) <= 1
    /\ Cardinality(Kinematic) <= 1

=============================================================================
